---------------------------- MODULE Spec2Model ----------------------------
(***************************************************************************)
(* Model of the anomaly-scoring engine of fraudhacker                      *)
(* (src/anomaly_tools.py): one detector object (KMeansAnomalyDetector or   *)
(* HDBAnomalyDetector) over a pandas DataFrame d_f, the scoring methods     *)
(* that attach the cluster_label / outlier_metric columns, the aggregation *)
(* get_most_frequent and the ranking get_n_most_frequent.                  *)
(*                                                                         *)
(* Numbers.  Outlier metrics are floats in the program; the model draws    *)
(* them from 0..MaxMetric.  A cutoff computed by np.percentile is a        *)
(* rational with denominator 100 (percent is an integer here), so every    *)
(* cutoff is kept in hundredths: the cutoff c is stored as c * Scale.      *)
(*                                                                         *)
(* Optional values.  Python's None is the empty tuple, a present value v   *)
(* is the one-element tuple <<v>>.                                         *)
(*                                                                         *)
(* Specifications.  Spec follows one constructed detector through scoring, *)
(* aggregation and ranking.  SpecBuild follows the constructor over any    *)
(* table and configuration.  SpecSession follows two detectors living in   *)
(* one process, with the objects they reach: the tables the caller holds   *)
(* and the StandardScaler instance that is scale_data's default argument.  *)
(***************************************************************************)
EXTENDS Integers, Sequences, FiniteSets, TLC

VARIABLES
    kind,    \* which subclass the detector is: "kmeans" or "hdb"
    d_f,     \* self.d_f: a function from column name to the column (a sequence)
    worst,   \* the caller's variable holding what get_most_frequent returned
    call,    \* the last method call: name, arguments, locals, exception, return
    frames,     \* the DataFrame objects the caller holds, by identity
    detectors,  \* the detector objects of the process: None until constructed
    scaler,     \* the StandardScaler() that is scale_data's default argument
    writer      \* for every mutable location, the detector that last wrote it

\* The objects of a process: what SpecBuild and SpecSession follow
session == <<frames, detectors, scaler, writer>>

vars == <<kind, d_f, worst, call, session>>

----------------------------------------------------------------------------
(* Bounds of the model *)

MaxRecords == 2
MaxMetric == 1

(* Program constants *)

KMeansDefaultPercent == 10
HDBDefaultPercent == 2
KMeansDefaultTopN == 10
DefaultTopN == 20
FlaskNumClusters == 8

(* Hundredths: the unit cutoffs are kept in *)
Scale == 100

\* The providers of the queried table
NPIs == {1, 2}
Metrics == 0..MaxMetric
\* percent arguments tried: the subclass's default, the ends of [0, 100], the
\* middle, and one value np.percentile rejects
Percents(default) == {0, default, 50, 100, 150}
ClusterCounts == {0, 1, 2, FlaskNumClusters}
TopNs == {1, 2, DefaultTopN}

None == << >>
Some(v) == <<v>>
Get(o) == o[1]

Min(a, b) == IF a <= b THEN a ELSE b
Max(a, b) == IF a >= b THEN a ELSE b

----------------------------------------------------------------------------
(* The DataFrame *)

MetaColumns == {"nppes_provider_last_org_name", "nppes_provider_street1",
                "nppes_provider_street2", "nppes_provider_zip",
                "nppes_provider_state"}

\* The content of a metadata column at a row position.  The program only
\* copies these values, it never compares or computes with them, so each
\* cell is an opaque value of its own.
Cell(col, i) == <<col, i>>

\* The queried table handed to the constructor: one npi per record plus the
\* provider metadata columns.
DataFrame(npis) ==
    [c \in {"npi"} \cup MetaColumns |->
        IF c = "npi" THEN npis ELSE [i \in 1..Len(npis) |-> Cell(c, i)]]

NumRows(df) == Len(df["npi"])

\* self.d_f[name] = values
SetColumn(df, name, values) ==
    [c \in DOMAIN df \cup {name} |-> IF c = name THEN values ELSE df[c]]

\* row_tuple[1] of d_f.iterrows() at position i
Row(df, i) == [c \in DOMAIN df |-> df[c][i]]


----------------------------------------------------------------------------
(* AnomalyDetector.get_most_frequent: the aggregation *)

\* row["outlier_metric"] > threshold, the cutoff being in hundredths
ExceedsOrEquals(metric, threshold) == metric * Scale >= threshold
Exceeds(metric, threshold) == metric * Scale > threshold

\* A membership test that never finds the key
KeyNeverFound(suspect_dict, npi) == FALSE

\* suspect_dict is a Python dict: it keeps its keys in insertion order, and
\* DataFrame.from_dict(orient='index') makes one row per key in that order.
\* It is modelled as the sequence of its entries, each carrying its key.
HasKey(suspect_dict, npi) ==
    \E j \in 1..Len(suspect_dict) : suspect_dict[j].npi = npi

\* The entry created for an npi that is not in suspect_dict yet
NewEntry(row) ==
    [npi |-> row["npi"],
     last_name |-> row["nppes_provider_last_org_name"],
     address |-> [street1 |-> row["nppes_provider_street1"],
                  street2 |-> row["nppes_provider_street2"],
                  zip |-> row["nppes_provider_zip"],
                  state |-> row["nppes_provider_state"]],
     outlier_count |-> 0]

\* suspect_dict[npi]["outlier_count"] += 1
Increment(suspect_dict, npi) ==
    [j \in 1..Len(suspect_dict) |->
        IF suspect_dict[j].npi = npi
        THEN [suspect_dict[j] EXCEPT !.outlier_count = @ + 1]
        ELSE suspect_dict[j]]

\* A loop body that writes the metadata of every record it visits
AggregateRowOverwriting(suspect_dict, row, threshold) ==
    LET entered ==
            IF ~HasKey(suspect_dict, row["npi"])
            THEN Append(suspect_dict, NewEntry(row))
            ELSE [j \in 1..Len(suspect_dict) |->
                    IF suspect_dict[j].npi = row["npi"]
                    THEN [NewEntry(row) EXCEPT
                            !.outlier_count = suspect_dict[j].outlier_count]
                    ELSE suspect_dict[j]]
    IN  IF Exceeds(row["outlier_metric"], threshold)
        THEN Increment(entered, row["npi"])
        ELSE entered

\* One iteration of the loop over d_f.iterrows()
AggregateRow(suspect_dict, row, threshold) ==
    LET entered ==
            IF ~HasKey(suspect_dict, row["npi"])
            THEN Append(suspect_dict, NewEntry(row))
            ELSE suspect_dict
    IN  IF Exceeds(row["outlier_metric"], threshold)
        THEN Increment(entered, row["npi"])
        ELSE entered

\* suspect_dict after the loop has visited the first k rows
RECURSIVE SuspectDict(_, _, _)
SuspectDict(df, threshold, k) ==
    IF k = 0
    THEN << >>
    ELSE AggregateRow(SuspectDict(df, threshold, k - 1), Row(df, k), threshold)

\* x put into rows, which is sorted ascending by outlier_count
RECURSIVE InsertAscending(_, _)
InsertAscending(rows, x) ==
    IF rows = << >> THEN <<x>>
    ELSE IF rows[1].outlier_count > x.outlier_count THEN <<x>> \o rows
    ELSE <<rows[1]>> \o InsertAscending(Tail(rows), x)

\* x put into rows, which is sorted descending by outlier_count, behind the
\* rows that have the same outlier_count
RECURSIVE InsertDescending(_, _)
InsertDescending(rows, x) ==
    IF rows = << >> THEN <<x>>
    ELSE IF rows[1].outlier_count < x.outlier_count THEN <<x>> \o rows
    ELSE <<rows[1]>> \o InsertDescending(Tail(rows), x)

\* ascending=True instead of ascending=False
RECURSIVE SortValuesAscending(_)
SortValuesAscending(rows) ==
    IF rows = << >> THEN << >>
    ELSE InsertAscending(SortValuesAscending(SubSeq(rows, 1, Len(rows) - 1)),
                         rows[Len(rows)])

\* suspect_d_f.sort_values(by="outlier_count", ascending=False).  pandas
\* sorts with kind='quicksort'; numpy's quicksort sorts a short array (at
\* most 16 elements, as every table here) by insertion, and pandas reverses
\* the array before and the result after, so rows with equal outlier_count
\* keep the order they have in suspect_d_f.  On longer tables the order of
\* such rows is whatever quicksort leaves.
RECURSIVE SortValues(_)
SortValues(rows) ==
    IF rows = << >> THEN << >>
    ELSE InsertDescending(SortValues(SubSeq(rows, 1, Len(rows) - 1)),
                          rows[Len(rows)])

\* DataFrame.head(n) is iloc[:n]: the first n rows, all of them when there
\* are fewer; for a negative n all but the last -n rows.
headOffByOne(rows, n) ==
    SubSeq(rows, 1, Max(Min(n, Len(rows)) - 1, 0))
head(rows, n) ==
    IF n >= 0
    THEN SubSeq(rows, 1, Min(n, Len(rows)))
    ELSE SubSeq(rows, 1, Max(Len(rows) + n, 0))

----------------------------------------------------------------------------
(* numpy.percentile(a, q), default method 'linear' *)

\* a with x inserted into the ascending sequence s
RECURSIVE Insert(_, _)
Insert(s, x) ==
    IF s = << >> THEN <<x>>
    ELSE IF x <= s[1] THEN <<x>> \o s
    ELSE <<s[1]>> \o Insert(Tail(s), x)

RECURSIVE SortAscending(_)
SortAscending(a) ==
    IF a = << >> THEN << >> ELSE Insert(SortAscending(Tail(a)), a[1])

\* method='lower': the order statistic below the virtual index
PercentileLower(a, q) ==
    LET s == SortAscending(a)
        lo == ((Len(a) - 1) * q) \div Scale
    IN  Scale * s[lo + 1]

\* The virtual index of the q-th percentile in the sorted array is
\* (n - 1) * q / 100; the result interpolates linearly between the order
\* statistics on both sides of it.  The result is in hundredths.
Percentile(a, q) ==
    LET s == SortAscending(a)
        n == Len(a)
        lo == ((n - 1) * q) \div Scale
        frac == ((n - 1) * q) % Scale
        hi == Min(lo + 1, n - 1)
    IN  Scale * s[lo + 1] + (s[hi + 1] - s[lo + 1]) * frac

----------------------------------------------------------------------------
(* The methods.  Each yields the outcome of a call: what it raised ("" when *)
(* it returned), what it returned, and the cutoff it handed to the          *)
(* aggregation (None when it did not get that far).                         *)

Outcome(raised, ret, threshold) ==
    [raised |-> raised, ret |-> ret, threshold |-> threshold]

\* AnomalyDetector.get_most_frequent(self, threshold), threshold in hundredths
get_most_frequent(df, threshold) ==
    IF "outlier_metric" \notin DOMAIN df
    THEN \* prints a message and returns None
         Outcome("", None, Some(threshold))
    ELSE Outcome("", Some(SortValues(SuspectDict(df, threshold, NumRows(df)))),
                 Some(threshold))

\* KMeansAnomalyDetector.get_most_frequent(self, threshold, top_n_return,
\* percent): the threshold and top_n_return arguments are never read.
KMeans_get_most_frequent(df, threshold, top_n_return, percent) ==
    IF "outlier_metric" \notin DOMAIN df
    THEN Outcome("KeyError", None, None)
    ELSE IF Scale - percent \notin 0..Scale
    THEN \* np.percentile: "Percentiles must be in the range [0, 100]"
         Outcome("ValueError", None, None)
    ELSE get_most_frequent(df, Percentile(df["outlier_metric"], Scale - percent))

\* HDBAnomalyDetector.get_most_frequent(self, threshold, percent): the
\* threshold argument is never read.
HDB_get_most_frequent(df, threshold, percent) ==
    IF "outlier_metric" \notin DOMAIN df
    THEN Outcome("KeyError", None, None)
    ELSE IF Scale - percent \notin 0..Scale
    THEN Outcome("ValueError", None, None)
    ELSE get_most_frequent(df, Percentile(df["outlier_metric"], Scale - percent))

\* Distance to the nearest centroid, whatever the row's label
NearestCentroidDistance(transformed, label, idx) ==
    CHOOSE d \in {transformed[idx][c] : c \in DOMAIN transformed[idx]} :
        \A c \in DOMAIN transformed[idx] : d <= transformed[idx][c]

\* transformed[:, label][idx]
OwnCentroidDistance(transformed, label, idx) == transformed[idx][label]

\* What KMeans(n_clusters=k).fit(scaled_dm) can yield on n rows: a label in
\* 0..k-1 for every row (labels_) and, from transform(scaled_dm), the
\* distance of every row to every one of the k centroids.
KMeansFits(n, k) ==
    [labels_ : [1..n -> 0..(k - 1)],
     transformed : [1..n -> [0..(k - 1) -> Metrics]]]

----------------------------------------------------------------------------
(* The state machine: one detector, and the caller holding its results *)

Thresholds == Metrics
\* threshold arguments of the subclasses' get_most_frequent: the default
\* None, and an explicit cutoff
ThresholdArgs == {None, Some(0)}
MinSizes == {1, 2}

Call(op, args, out, transformed) ==
    [op |-> op, args |-> args, raised |-> out.raised, ret |-> out.ret,
     threshold |-> out.threshold, transformed |-> transformed]

\* The detector has been constructed over the queried table: __init__ has
\* built data_matrix and scaled_dm; no scorer has run.  The table has at
\* least one record: over an empty table scale_data raises in __init__
\* (the matrix has no column to fit), and no detector comes to exist.
Init ==
    /\ kind \in {"kmeans", "hdb"}
    /\ \E n \in 1..MaxRecords : \E npis \in [1..n -> NPIs] :
           d_f = DataFrame(npis)
    /\ worst = None
    /\ call = Call("__init__", << >>, Outcome("", None, None), None)
    /\ frames = << >> /\ detectors = << >> /\ scaler = None /\ writer = << >>

\* kmd.compute_centroid_distances(num_clusters).  A pipeline run scores its
\* table once (flask_app.py); a second scoring would draw from the same fits
\* and replace both columns, so it reaches no other scored table.
ComputeCentroidDistances ==
    /\ kind = "kmeans"
    /\ "outlier_metric" \notin DOMAIN d_f
    /\ \E num_clusters \in ClusterCounts :
         IF num_clusters \notin 1..NumRows(d_f)
         THEN \* KMeans.fit rejects n_clusters < 1 and n_clusters > n_samples
              /\ call' = Call("compute_centroid_distances", <<num_clusters>>,
                              Outcome("ValueError", None, None), None)
              /\ UNCHANGED d_f
         ELSE \E kmeans_result \in KMeansFits(NumRows(d_f), num_clusters) :
              LET labelled == SetColumn(d_f, "cluster_label",
                                        kmeans_result.labels_)
              IN  /\ d_f' = SetColumn(labelled, "outlier_metric",
                        [idx \in 1..NumRows(d_f) |->
                            OwnCentroidDistance(kmeans_result.transformed,
                                                labelled["cluster_label"][idx],
                                                idx)])
                  /\ call' = Call("compute_centroid_distances",
                                  <<num_clusters>>, Outcome("", None, None),
                                  Some(kmeans_result.transformed))
    /\ UNCHANGED <<kind, worst, session>>

\* hdb.get_outlier_scores(min_size), once per pipeline run as well
GetOutlierScores ==
    /\ kind = "hdb"
    /\ "outlier_metric" \notin DOMAIN d_f
    /\ \E min_size \in MinSizes :
         IF min_size <= 1
         THEN \* HDBSCAN.fit rejects min_cluster_size <= 1
              /\ call' = Call("get_outlier_scores", <<min_size>>,
                              Outcome("ValueError", None, None), None)
              /\ UNCHANGED d_f
         ELSE \E outlier_scores \in [1..NumRows(d_f) -> Metrics] :
              /\ d_f' = SetColumn(d_f, "outlier_metric",
                                  [idx \in 1..NumRows(d_f) |-> outlier_scores[idx]])
              /\ call' = Call("get_outlier_scores", <<min_size>>,
                              Outcome("", None, None), None)
    /\ UNCHANGED <<kind, worst, session>>

\* worst = AnomalyDetector.get_most_frequent(detector, threshold)
GetMostFrequent ==
    /\ \E threshold \in Thresholds :
       LET out == get_most_frequent(d_f, threshold * Scale) IN
         /\ call' = Call("AnomalyDetector.get_most_frequent",
                         [threshold |-> Some(threshold)], out, None)
         /\ worst' = out.ret
    /\ UNCHANGED <<kind, d_f, session>>

\* worst = kmd.get_most_frequent(threshold, top_n_return, percent)
KMeansGetMostFrequent ==
    /\ kind = "kmeans"
    /\ \E threshold \in ThresholdArgs : \E percent \in Percents(KMeansDefaultPercent) :
       LET out == KMeans_get_most_frequent(
                      d_f,
                      IF threshold = None THEN None ELSE Some(Get(threshold) * Scale),
                      KMeansDefaultTopN, percent) IN
         /\ call' = Call("KMeansAnomalyDetector.get_most_frequent",
                         [threshold |-> threshold, percent |-> percent], out, None)
         /\ worst' = IF out.raised = "" THEN out.ret ELSE worst
    /\ UNCHANGED <<kind, d_f, session>>

\* worst = hdb.get_most_frequent(threshold, percent)
HDBGetMostFrequent ==
    /\ kind = "hdb"
    /\ \E threshold \in ThresholdArgs : \E percent \in Percents(HDBDefaultPercent) :
       LET out == HDB_get_most_frequent(
                      d_f,
                      IF threshold = None THEN None ELSE Some(Get(threshold) * Scale),
                      percent) IN
         /\ call' = Call("HDBAnomalyDetector.get_most_frequent",
                         [threshold |-> threshold, percent |-> percent], out, None)
         /\ worst' = IF out.raised = "" THEN out.ret ELSE worst
    /\ UNCHANGED <<kind, d_f, session>>

\* AnomalyDetector.get_n_most_frequent(sorted_df, top_n_return), a static
\* method; the caller passes what get_most_frequent returned.
get_n_most_frequent(sorted_df, top_n_return) ==
    IF sorted_df = None
    THEN \* None has no attribute 'head'
         Outcome("AttributeError", None, None)
    ELSE Outcome("", Some(head(Get(sorted_df), top_n_return)), None)

\* worst_10 = kmd.get_n_most_frequent(worst, top_n_return)
GetNMostFrequent ==
    /\ \E top_n_return \in TopNs :
         call' = Call("get_n_most_frequent", [top_n_return |-> top_n_return],
                      get_n_most_frequent(worst, top_n_return), None)
    /\ UNCHANGED <<kind, d_f, worst, session>>

Next ==
    \/ ComputeCentroidDistances
    \/ GetOutlierScores
    \/ GetMostFrequent
    \/ KMeansGetMostFrequent
    \/ HDBGetMostFrequent
    \/ GetNMostFrequent

Spec == Init /\ [][Next]_vars

----------------------------------------------------------------------------
(* The constructor: AnomalyDetector.__init__ and build_data_matrix *)

\* fh_config.py: the configured regression fields (the first two of the
\* five) and the response field
regression_vars == <<"line_srvc_cnt", "bene_unique_cnt">>
response_var == "average_medicare_payment_amt"

FeatureColumns ==
    {regression_vars[k] : k \in 1..Len(regression_vars)} \cup {response_var}

\* The regression field lists a caller can pass: none, one, and two fields
\* in either order
RegressionVarLists ==
    {<< >>, <<regression_vars[1]>>, regression_vars,
     <<regression_vars[2], regression_vars[1]>>}

Classes == {"AnomalyDetector", "KMeansAnomalyDetector", "HDBAnomalyDetector"}

\* PandasDBReader.d_f: the queried table with the feature columns the
\* query selected.  build_data_matrix only copies feature values, so each
\* is an opaque cell.
QueriedTable(npis, columns) ==
    LET df == DataFrame(npis) IN
    [c \in DOMAIN df \cup columns |->
        IF c \in DOMAIN df THEN df[c] ELSE [i \in 1..Len(npis) |-> Cell(c, i)]]

\* list(zip(*data_list)): the columns of one table have one length
Zip(data_list) ==
    IF data_list = << >> THEN << >>
    ELSE [i \in 1..Len(data_list[1]) |->
             [k \in 1..Len(data_list) |-> data_list[k][i]]]

\* np.matrix(rows), a sequence of rows; np.matrix([]) has shape (1, 0)
np_matrix(rows) == IF rows = << >> THEN << << >> >> ELSE rows

Built(raised, names, matrix) ==
    [raised |-> raised, names |-> names, matrix |-> matrix]

\* AnomalyDetector.build_data_matrix(self): self.d_f[label] raises
\* KeyError(label) at the first label read that is no column of the table
build_data_matrix(df, reg_vars, resp_var, use_resp) ==
    LET labels == IF use_resp THEN Append(reg_vars, resp_var) ELSE reg_vars
        missing == {k \in 1..Len(labels) : labels[k] \notin DOMAIN df}
    IN  IF missing # {}
        THEN Built("KeyError",
                   Some(labels[CHOOSE k \in missing : \A j \in missing : k <= j]),
                   None)
        ELSE Built("", None,
                   Some(np_matrix(Zip([k \in 1..Len(labels) |-> df[labels[k]]]))))

\* method.fit_transform(self.data_matrix) of scale_data.  The fitted
\* statistics (mean_, var_, scale_) are a function of the matrix fitted, and
\* are kept as that matrix; the scaled matrix is kept as the matrix with the
\* statistics applied to it.  A matrix without a column is rejected.
fit_transform(X) ==
    IF Len(X[1]) = 0
    THEN [raised |-> "ValueError", stats |-> None, ret |-> None]
    ELSE [raised |-> "", stats |-> Some(X), ret |-> Some([X |-> X, stats |-> X])]

----------------------------------------------------------------------------
(* The objects of a process *)

\* The mutable locations detectors reach: the fitted statistics of the one
\* StandardScaler (object 0), and the two columns scorers set on a table
ScalerStatistics == <<0, "statistics">>
Column(f, name) == <<f, name>>
Locations(fs) ==
    {ScalerStatistics} \cup {Column(f, c) : f \in fs, c \in {"cluster_label", "outlier_metric"}}

\* The locations among locs that a detector other than x wrote last
Foreign(x, locs) == {l \in locs : writer[l] \notin {0, x}}

SessionCall(self, op, args, raised, names, matrix, ret, interference) ==
    [self |-> self, op |-> op, args |-> args, raised |-> raised,
     names |-> names, matrix |-> matrix, ret |-> ret,
     interference |-> interference]

Detector(cls, reg_vars, resp_var, f, use_resp, data_matrix, scaled_dm) ==
    [cls |-> cls, regression_vars |-> reg_vars, response_var |-> resp_var,
     d_f |-> f, use_response_var |-> use_resp, data_matrix |-> data_matrix,
     scaled_dm |-> scaled_dm]

\* detectors[x] = cls(reg_vars, response_var, frames[f], use_resp).  self.d_f
\* is the caller's table itself, not a copy.  The subclasses go on to
\* self.scaled_dm = self.scale_data(), which fits the default scaler: fit
\* resets the scaler before it validates the matrix.
Construct(x, f, cls, reg_vars, use_resp) ==
    /\ detectors[x] = None
    /\ LET built == build_data_matrix(frames[f], reg_vars, response_var, use_resp)
           args == [cls |-> cls, regression_vars |-> reg_vars,
                    response_var |-> response_var, d_f |-> f,
                    use_response_var |-> use_resp]
       IN  IF built.raised # ""
           THEN /\ call' = SessionCall(x, "__init__", args, built.raised,
                                       built.names, None, None, {})
                /\ UNCHANGED <<detectors, scaler, writer>>
           ELSE IF cls = "AnomalyDetector"
           THEN /\ detectors' = [detectors EXCEPT ![x] =
                       Some(Detector(cls, reg_vars, response_var, f, use_resp,
                                     Get(built.matrix), None))]
                /\ call' = SessionCall(x, "__init__", args, "", None,
                                       built.matrix, None, {})
                /\ UNCHANGED <<scaler, writer>>
           ELSE LET scaled == fit_transform(Get(built.matrix)) IN
                /\ scaler' = scaled.stats
                /\ writer' = [writer EXCEPT ![ScalerStatistics] = x]
                /\ detectors' =
                       IF scaled.raised # "" THEN detectors
                       ELSE [detectors EXCEPT ![x] =
                               Some(Detector(cls, reg_vars, response_var, f,
                                             use_resp, Get(built.matrix),
                                             Get(scaled.ret)))]
                /\ call' = SessionCall(x, "__init__", args, scaled.raised, None,
                                       built.matrix, None,
                                       Foreign(x, {ScalerStatistics}))
    /\ UNCHANGED <<kind, d_f, worst, frames>>

\* A detector of any class over any configuration
ConstructAny ==
    \E x \in DOMAIN detectors : \E f \in DOMAIN frames : \E cls \in Classes :
    \E reg_vars \in RegressionVarLists : \E use_resp \in BOOLEAN :
        Construct(x, f, cls, reg_vars, use_resp)

\* flask_app.py: a scorer over the configured fields, response field used
ConstructConfigured ==
    \E x \in DOMAIN detectors : \E f \in DOMAIN frames :
    \E cls \in {"KMeansAnomalyDetector", "HDBAnomalyDetector"} :
        Construct(x, f, cls, regression_vars, TRUE)

\* The fits followed for two detectors: one cluster, and only the first
\* record off the centroid
SessionKMeansFits(n) ==
    {fit \in KMeansFits(n, 1) : \A i \in 2..n : fit.transformed[i][0] = 0}
SessionOutlierScores(n) ==
    {scores \in [1..n -> Metrics] : \A i \in 2..n : scores[i] = 0}

\* detectors[x].compute_centroid_distances(num_clusters=1) or
\* detectors[x].get_outlier_scores(min_size=2): the columns are set on the
\* table the detector was constructed over
Score(x) ==
    /\ detectors[x] # None
    /\ LET self == Get(detectors[x])
           f == self.d_f
           n == NumRows(frames[f])
       IN  \/ /\ self.cls = "KMeansAnomalyDetector"
              /\ \E kmeans_result \in SessionKMeansFits(n) :
                 LET labelled == SetColumn(frames[f], "cluster_label",
                                           kmeans_result.labels_)
                     written == {Column(f, "cluster_label"),
                                 Column(f, "outlier_metric")}
                 IN  /\ frames' = [frames EXCEPT ![f] =
                           SetColumn(labelled, "outlier_metric",
                               [idx \in 1..n |->
                                   OwnCentroidDistance(kmeans_result.transformed,
                                       labelled["cluster_label"][idx], idx)])]
                     /\ writer' = [l \in DOMAIN writer |->
                                      IF l \in written THEN x ELSE writer[l]]
                     /\ call' = SessionCall(x, "compute_centroid_distances",
                                    <<1>>, "", None, None, None,
                                    Foreign(x, written))
           \/ /\ self.cls = "HDBAnomalyDetector"
              /\ \E outlier_scores \in SessionOutlierScores(n) :
                 LET written == {Column(f, "outlier_metric")}
                 IN  /\ frames' = [frames EXCEPT ![f] =
                           SetColumn(frames[f], "outlier_metric",
                               [idx \in 1..n |-> outlier_scores[idx]])]
                     /\ writer' = [l \in DOMAIN writer |->
                                      IF l \in written THEN x ELSE writer[l]]
                     /\ call' = SessionCall(x, "get_outlier_scores", <<2>>,
                                    "", None, None, None, Foreign(x, written))
    /\ UNCHANGED <<kind, d_f, worst, detectors, scaler>>

ScoreAny == \E x \in DOMAIN detectors : Score(x)

\* detectors[x].get_most_frequent(), the subclass's method with its default
\* arguments: it reads the outlier_metric column of the detector's table
Aggregate(x) ==
    /\ detectors[x] # None
    /\ LET self == Get(detectors[x])
           df == frames[self.d_f]
           out == IF self.cls = "KMeansAnomalyDetector"
                  THEN KMeans_get_most_frequent(df, None, KMeansDefaultTopN,
                                                KMeansDefaultPercent)
                  ELSE HDB_get_most_frequent(df, None, HDBDefaultPercent)
       IN  call' = SessionCall(x, "get_most_frequent", << >>, out.raised, None,
                        None, out.ret,
                        Foreign(x, {Column(self.d_f, "outlier_metric")}))
    /\ UNCHANGED <<kind, d_f, worst, session>>

AggregateAny == \E x \in DOMAIN detectors : Aggregate(x)

NoCall == SessionCall(0, "", << >>, "", None, None, None, {})

\* The caller holds one queried table, which may be empty and may lack
\* feature columns; no detector exists yet
InitBuild ==
    /\ kind = "" /\ d_f = << >> /\ worst = None
    /\ \E n \in 0..MaxRecords : \E npis \in [1..n -> NPIs] :
       \E columns \in SUBSET FeatureColumns :
           frames = <<QueriedTable(npis, columns)>>
    /\ detectors = <<None>>
    /\ scaler = None
    /\ writer = [l \in Locations({1}) |-> 0]
    /\ call = NoCall

NextBuild == ConstructAny

SpecBuild == InitBuild /\ [][NextBuild]_vars

\* The caller holds two queried tables with every feature column, the
\* second holding the first records of the first, and constructs up to two
\* scorers, each over either table
InitSession ==
    /\ kind = "" /\ d_f = << >> /\ worst = None
    /\ \E n \in 1..MaxRecords : \E npis \in [1..n -> NPIs] :
       \E m \in 1..n :
           frames = <<QueriedTable(npis, FeatureColumns),
                      QueriedTable(SubSeq(npis, 1, m), FeatureColumns)>>
    /\ detectors = <<None, None>>
    /\ scaler = None
    /\ writer = [l \in Locations({1, 2}) |-> 0]
    /\ call = NoCall

NextSession ==
    \/ ConstructConfigured
    \/ ScoreAny
    \/ AggregateAny

SpecSession == InitSession /\ [][NextSession]_vars

----------------------------------------------------------------------------
(* Vocabulary of the properties *)

BaseGMF == "AnomalyDetector.get_most_frequent"
KMeansGMF == "KMeansAnomalyDetector.get_most_frequent"
HDBGMF == "HDBAnomalyDetector.get_most_frequent"

\* The last call was an aggregation
IsGMF == call.op \in {BaseGMF, KMeansGMF, HDBGMF}

\* The last call was the aggregation of a scorer subclass
IsScorerGMF == call.op \in {KMeansGMF, HDBGMF}

\* A scorer has attached the outlier metric
Scored == "outlier_metric" \in DOMAIN d_f

\* The last call was an aggregation and it returned a summary table
ReturnedTable == IsGMF /\ call.raised = "" /\ call.ret # None

\* The entity ids occurring in the record table
Entities == {d_f["npi"][i] : i \in 1..NumRows(d_f)}

\* The positions of the records of entity e
RecordsOf(e) == {i \in 1..NumRows(d_f) : d_f["npi"][i] = e}

\* The position of the first record of entity e in input order
FirstRecordOf(e) ==
    CHOOSE i \in RecordsOf(e) : \A j \in RecordsOf(e) : i <= j

----------------------------------------------------------------------------
\* C1: after get_most_frequent has aggregated the record table with the
\* cutoff t, every entity id e of the table has exactly one summary, and its
\* outlier_count is the number of records of e whose outlier_metric is
\* strictly greater than t; a record whose metric equals t is not counted.
C1_OutlierCountExact ==
    ReturnedTable =>
        LET rows == Get(call.ret)
            t == Get(call.threshold)
        IN  \A e \in Entities :
              /\ \E j \in 1..Len(rows) : rows[j].npi = e
              /\ \A j \in 1..Len(rows) :
                    rows[j].npi = e =>
                        rows[j].outlier_count =
                            Cardinality({i \in RecordsOf(e) :
                                d_f["outlier_metric"][i] * Scale > t})

\* An aggregation in which one record's metric equals the cutoff, another
\* record is above it, and some entity was counted
C1_Witness ==
    /\ ReturnedTable
    /\ \E i \in 1..NumRows(d_f) :
          d_f["outlier_metric"][i] * Scale = Get(call.threshold)
    /\ \E i \in 1..NumRows(d_f) :
          d_f["outlier_metric"][i] * Scale > Get(call.threshold)
    /\ \E j \in 1..Len(Get(call.ret)) : Get(call.ret)[j].outlier_count >= 1

----------------------------------------------------------------------------
\* C2: when the caller passes an explicit numeric threshold to the
\* get_most_frequent of a scorer subclass, that value is the cutoff the
\* aggregation counts with, unchanged, and the returned table is the one
\* aggregated with that cutoff whatever percent is.
C2_ExplicitThresholdUsed ==
    (IsScorerGMF /\ Scored /\ call.args.threshold # None) =>
        LET t == Get(call.args.threshold) * Scale
        IN  /\ call.raised = ""
            /\ call.threshold = Some(t)
            /\ call.ret # None
            /\ Get(call.ret) = SortValues(SuspectDict(d_f, t, NumRows(d_f)))

----------------------------------------------------------------------------
\* The k-th smallest value of a (k in 1..Len(a)), by counting
OrderStatistic(a, k) ==
    CHOOSE v \in {a[i] : i \in 1..Len(a)} :
        /\ Cardinality({i \in 1..Len(a) : a[i] < v}) < k
        /\ k <= Cardinality({i \in 1..Len(a) : a[i] <= v})

\* c (in hundredths) lies on the line through the two order statistics
\* around the q-th percentile: the j-th order statistic sits at the
\* percentile 100 * (j - 1) / (n - 1).
IsLinearPercentile(c, a, q) ==
    LET n == Len(a)
    IN  IF n = 1
        THEN c = Scale * a[1]
        ELSE \E j \in 1..(n - 1) :
               /\ Scale * (j - 1) <= q * (n - 1)
               /\ q * (n - 1) <= Scale * j
               /\ c = Scale * OrderStatistic(a, j)
                        + (OrderStatistic(a, j + 1) - OrderStatistic(a, j))
                            * (q * (n - 1) - Scale * (j - 1))

\* C3: when no explicit threshold is given and percent is in (0, 100], the
\* cutoff a scorer subclass's get_most_frequent aggregates with is the
\* (100 - percent)-th percentile of the outlier metrics of all records,
\* interpolated linearly between the neighbouring order statistics.
C3_CutoffIsLinearPercentile ==
    (/\ IsScorerGMF
     /\ Scored
     /\ call.args.threshold = None
     /\ call.args.percent > 0
     /\ call.args.percent <= Scale) =>
        /\ call.raised = ""
        /\ call.threshold # None
        /\ IsLinearPercentile(Get(call.threshold), d_f["outlier_metric"],
                              Scale - call.args.percent)

\* A cutoff that falls strictly between two different order statistics
C3_Witness ==
    /\ IsScorerGMF
    /\ Scored
    /\ call.args.threshold = None
    /\ call.args.percent > 0
    /\ call.args.percent < Scale
    /\ call.raised = ""
    /\ Get(call.threshold) % Scale # 0

----------------------------------------------------------------------------
\* C4: an entity's summary metadata (last name, address) is that of the
\* first record of the entity in input order; from the loop iteration that
\* creates the summary on, no later record changes the metadata, only
\* outlier_count changes.
C4_FirstSeenMetadata ==
    ReturnedTable =>
        LET rows == Get(call.ret)
            t == Get(call.threshold)
            Entry(k, e) ==
                LET dict == SuspectDict(d_f, t, k)
                IN  dict[CHOOSE j \in 1..Len(dict) : dict[j].npi = e]
        IN  \A j \in 1..Len(rows) :
              LET e == rows[j].npi
                  first == Row(d_f, FirstRecordOf(e))
              IN  /\ rows[j].last_name = first["nppes_provider_last_org_name"]
                  /\ rows[j].address =
                        [street1 |-> first["nppes_provider_street1"],
                         street2 |-> first["nppes_provider_street2"],
                         zip |-> first["nppes_provider_zip"],
                         state |-> first["nppes_provider_state"]]
                  /\ \A k \in FirstRecordOf(e)..NumRows(d_f) :
                        /\ Entry(k, e).last_name = rows[j].last_name
                        /\ Entry(k, e).address = rows[j].address
                        /\ Entry(k, e).outlier_count <= rows[j].outlier_count

\* An entity with two records of different metadata, whose later record was
\* counted after the summary had been created
C4_Witness ==
    /\ ReturnedTable
    /\ \E e \in Entities : \E i \in RecordsOf(e) :
          /\ i > FirstRecordOf(e)
          /\ d_f["nppes_provider_last_org_name"][i]
                # d_f["nppes_provider_last_org_name"][FirstRecordOf(e)]
          /\ d_f["outlier_metric"][i] * Scale > Get(call.threshold)
          /\ d_f["outlier_metric"][FirstRecordOf(e)] * Scale
                <= Get(call.threshold)

----------------------------------------------------------------------------
\* C5 as stated: the returned table is sorted descending by outlier_count,
\* and two entities with equal outlier_count appear in ascending entity_id
\* order.
C5_TiesByEntityId ==
    ReturnedTable =>
        LET rows == Get(call.ret)
        IN  \A i, j \in 1..Len(rows) :
              i < j =>
                \/ rows[i].outlier_count > rows[j].outlier_count
                \/ /\ rows[i].outlier_count = rows[j].outlier_count
                   /\ rows[i].npi < rows[j].npi

\* C5 (amended): the returned table is sorted descending by outlier_count:
\* no row is followed by a row with a greater outlier_count.  (Entities with
\* equal outlier_count are not ordered by entity id.)
C5_SortedDescending ==
    ReturnedTable =>
        LET rows == Get(call.ret)
        IN  \A i, j \in 1..Len(rows) :
              i < j => rows[i].outlier_count >= rows[j].outlier_count

\* A table whose first-seen entity has the smaller count, so that the sort
\* has moved it behind the other
C5_Witness ==
    /\ ReturnedTable
    /\ Len(Get(call.ret)) = 2
    /\ Get(call.ret)[1].outlier_count > Get(call.ret)[2].outlier_count
    /\ Get(call.ret)[2].npi = d_f["npi"][1]

----------------------------------------------------------------------------
\* C6: get_n_most_frequent applied to the sorted summary table with a
\* positive top_n returns the first min(top_n, number of distinct entities)
\* rows in their sorted order, and does not raise when the table has fewer
\* than top_n rows.
C6_FirstTopNRows ==
    (/\ call.op = "get_n_most_frequent"
     /\ worst # None
     /\ call.args.top_n_return > 0) =>
        /\ call.raised = ""
        /\ call.ret # None
        /\ Len(Get(call.ret)) = Min(call.args.top_n_return, Cardinality(Entities))
        /\ \A i \in 1..Len(Get(call.ret)) : Get(call.ret)[i] = Get(worst)[i]

\* A table of two rows asked for its first row
C6_Witness ==
    /\ call.op = "get_n_most_frequent"
    /\ worst # None
    /\ Len(Get(worst)) = 2
    /\ call.args.top_n_return = 1
    /\ call.raised = ""
    /\ Get(call.ret) = <<Get(worst)[1]>>

----------------------------------------------------------------------------
\* C7: get_most_frequent (of the base class or of a scorer subclass) called
\* on a detector whose records have no outlier_metric yet raises an error
\* (PreconditionError); it returns neither a null result nor a summary table.
C7_UnscoredAggregationRaises ==
    (IsGMF /\ ~Scored) => call.raised # ""

----------------------------------------------------------------------------
\* The stages of one pipeline run that the detector and its caller have
\* completed: Scored once the outlier metric is attached, Aggregated once the
\* caller holds a summary table.
Aggregated == worst # None

\* C8: a stage runs only after its predecessor has completed: an aggregation
\* (with its threshold selection) attempted before scoring, and a ranking
\* attempted before aggregation, are rejected with an error
\* (PreconditionError) and produce no result, and a summary table is held
\* only by a run that has scored.
C8_StagesInOrder ==
    /\ (IsGMF /\ ~Scored) => (call.raised # "" /\ call.ret = None)
    /\ (call.op = "get_n_most_frequent" /\ ~Aggregated) =>
            (call.raised # "" /\ call.ret = None)
    /\ Aggregated => Scored

----------------------------------------------------------------------------
\* C9: threshold selection invoked with a percent outside (0, 100] (0, a
\* negative value, a value above 100) raises an error
\* (InvalidParameterError) and produces no threshold and no summary table.
C9_PercentOutOfRangeRaises ==
    (/\ IsScorerGMF
     /\ Scored
     /\ ~(call.args.percent > 0 /\ call.args.percent <= Scale)) =>
        /\ call.raised # ""
        /\ call.threshold = None
        /\ call.ret = None

----------------------------------------------------------------------------
\* C10: after compute_centroid_distances(k) with 1 <= k <= row count, one
\* outlier metric is attached per record, and the metric at every row
\* position i is the non-negative distance of row i to the centroid of the
\* cluster row i was labelled with: the entry of the all-centroid distance
\* matrix in row i and column cluster_label[i].
C10_OwnCentroidDistance ==
    (/\ call.op = "compute_centroid_distances"
     /\ call.args[1] \in 1..NumRows(d_f)) =>
        /\ call.raised = ""
        /\ Scored
        /\ "cluster_label" \in DOMAIN d_f
        /\ DOMAIN d_f["outlier_metric"] = 1..NumRows(d_f)
        /\ DOMAIN d_f["cluster_label"] = 1..NumRows(d_f)
        /\ \A i \in 1..NumRows(d_f) :
              /\ d_f["cluster_label"][i] \in 0..(call.args[1] - 1)
              /\ d_f["outlier_metric"][i] =
                    Get(call.transformed)[i][d_f["cluster_label"][i]]
              /\ d_f["outlier_metric"][i] >= 0

\* Two rows in different clusters, one of them labelled with a centroid that
\* is not its nearest, so that its metric is not the smallest entry of its
\* row of the distance matrix
C10_Witness ==
    /\ call.op = "compute_centroid_distances"
    /\ call.raised = ""
    /\ call.args[1] = 2
    /\ NumRows(d_f) = 2
    /\ d_f["cluster_label"][1] # d_f["cluster_label"][2]
    /\ \E c \in 0..1 :
          Get(call.transformed)[1][c] < d_f["outlier_metric"][1]
    /\ Get(call.transformed)[1] # Get(call.transformed)[2]

----------------------------------------------------------------------------
(* The constructor's properties, over SpecBuild *)

\* The last call was a constructor call
IsInit == call.op = "__init__"

\* The table the last constructor call was given
InitTable == frames[call.args.d_f]

\* The labels the configuration of the last constructor call names as
\* matrix columns, in order
InitLabels ==
    IF call.args.use_response_var
    THEN Append(call.args.regression_vars, call.args.response_var)
    ELSE call.args.regression_vars

\* C11: whenever build_data_matrix returns, the matrix has exactly one row per
\* record of the table, in input order, and the columns of each row are the
\* regression fields in configured order followed by the response field if
\* and only if use_response_var is set -- for every configuration, the empty
\* regression field list included.
C11_OneRowPerRecord ==
    (IsInit /\ call.matrix # None) =>
        LET data_matrix == Get(call.matrix) IN
        /\ Len(data_matrix) = NumRows(InitTable)
        /\ \A i \in 1..Len(data_matrix) :
              data_matrix[i] =
                  [k \in 1..Len(InitLabels) |-> InitTable[InitLabels[k]][i]]

\* The configured fields that are no column of the table: the regression
\* fields and the response field, used or not
AbsentFields ==
    {c \in {call.args.regression_vars[k] :
                k \in 1..Len(call.args.regression_vars)}
           \cup {call.args.response_var} : c \notin DOMAIN InitTable}

\* C14: a constructor call over a table that lacks a configured regression
\* field or the response field raises, the error names a missing field, and
\* no matrix is produced -- whether or not use_response_var is set.
C14_MissingFieldRaises ==
    (IsInit /\ AbsentFields # {}) =>
        /\ call.raised # ""
        /\ call.names # None
        /\ Get(call.names) \in AbsentFields
        /\ call.matrix = None

\* C15: a constructor call over a table of zero records raises, and it does so
\* before matrix construction: no matrix has been built.
C15_EmptyInputRaisesBeforeMatrix ==
    (IsInit /\ NumRows(InitTable) = 0) =>
        /\ call.raised # ""
        /\ call.matrix = None

----------------------------------------------------------------------------
(* Two detectors in one process, over SpecSession *)

\* C13: no call of one detector reads or overwrites a location that the other
\* detector wrote last -- the scaler's fitted statistics, the cluster_label
\* and outlier_metric columns of the record table.
C13_NoSharedMutableState == call.interference = {}

----------------------------------------------------------------------------
(* The shape of the aggregated table, over Spec *)

RECURSIVE SumOfCounts(_, _)
SumOfCounts(rows, k) ==
    IF k = 0 THEN 0 ELSE SumOfCounts(rows, k - 1) + rows[k].outlier_count

============================================================================
